---- MODULE Spec2Model ----
(***************************************************************************)
(* A model of libnano.padlock: generation and screening of padlock probes  *)
(* (generate_padlocks, screen_padlock_arms, split_hit_list, sort_hit_list).*)
(*                                                                         *)
(* Strings are sequences of one-letter strings.  The primer3 calculators   *)
(* calcTm and calcHeterodimerTm are external: their results are inputs of  *)
(* the actions.  calcTm is held to be a function of its argument (tm_memo  *)
(* remembers the value given for each arm); calcHeterodimerTm is left free *)
(* at every call.  Temperatures are integers, fractions are percentages,   *)
(* and the score tm_l + 0.9 * tm_r is kept as 10 * tm_l + 9 * tm_r.        *)
(***************************************************************************)
EXTENDS Integers, Sequences, FiniteSets, TLC

\* ------------------------------------------------------------------ bounds
MaxSeqLen == 6
LongSeqLen == 8
ShortSeqLen == 3
MaxArmLen == 2
MaxGap == 2
MaxSpacing == 2
MaxBarcodes == 2
ScreenArmLen == 5

Bases == {"A", "G"}
\* calcTm's and calcHeterodimerTm's results in a run of generate_padlocks
\* (TmVals, HetVals: none fails the screen, so that a run's windows are
\* turned down by their bases alone) and in a single call of
\* screen_padlock_arms (ScreenTmVals, ScreenHetVals: passing and failing)
TmVals == {50, 55}
HetVals == {30}
ScreenTmVals == {45, 50}
ScreenHetVals == {30, 35}

\* ------------------------------------------------- strings (Python's str)
Min(a, b) == IF a < b THEN a ELSE b
Max(a, b) == IF a > b THEN a ELSE b

\* s[a:b] for 0 <= a, 0 <= b: Python clips both ends to len(s)
Slice(s, a, b) ==
    IF a >= Min(b, Len(s)) THEN << >> ELSE SubSeq(s, a + 1, Min(b, Len(s)))

\* sub in s
Contains(sub, s) ==
    \E k \in 0..(Len(s) - Len(sub)) : Slice(s, k, k + Len(sub)) = sub

\* s.count('G') + s.count('C')
GcCount(s) == Cardinality({k \in 1..Len(s) : s[k] \in {"G", "C"}})

StringsOfLen(n) == [1..n -> Bases]
StringsUpTo(n) == UNION {StringsOfLen(k) : k \in 0..n}

PolyG == <<"G", "G", "G", "G">>

\* --------------------------------------------------------------- scaffold
\* SCAFFOLD_SEQ_HYBRID: the text before and after the {barcode} slot (every
\* other slot is formatted to ''); the template's text is data of
\* datasets/padlock.yaml
ScaffoldPrefix == <<"T">>
ScaffoldSuffix == <<"T">>

create_scaffold(bc) == ScaffoldPrefix \o bc \o ScaffoldSuffix

BarcodeSet == {<<"A">>, <<"C">>, <<"G", "G", "G", "G">>}
BarcodeLists == UNION {[1..k -> BarcodeSet] : k \in 0..MaxBarcodes}

\* ----------------------------------------------------------- configuration
\* DEFAULT_PADLOCK_CONFIG(): fractions as percentages, keep_random_n None as
\* the empty sequence and an integer n as <<n>>
DEFAULT_PADLOCK_CONFIG ==
    [spacing          |-> 20,
     gap_size         |-> 0,
     arm_gc_min       |-> 40,
     arm_gc_max       |-> 60,
     exclude_seqs     |-> << <<"G", "G", "G", "G", "G">> >>,
     structure_tm_max |-> 30,
     keep_random_n    |-> << >>,
     arm_tm_min       |-> 50]

\* default_p.update(params): the caller's keys win
MergeParams(default_p, given) ==
    [k \in DOMAIN default_p |->
        IF k \in DOMAIN given THEN given[k] ELSE default_p[k]]

\* ------------------------------------------------------------- Arm Screen
ClampWindow == 5
ClampMax == 3

\* gc_content(seq): the fraction of G/C bases, kept as <<count, length>>
gc_content(s) == <<GcCount(s), Len(s)>>
\* gc < pct / 100 and gc > pct / 100
GcLess(gc, pct) == gc[1] * 100 < pct * gc[2]
GcMore(gc, pct) == gc[1] * 100 > pct * gc[2]

padlock_right_arm_gc_clamp(p) ==
    GcCount(Slice(p, Max(0, Len(p) - ClampWindow), Len(p)))

padlock_left_arm_gc_clamp(p) == GcCount(Slice(p, 0, ClampWindow))

\* the loop over exclude_seqs: the first one found is recorded, then break
ExcludedFound(exclude_seqs, p_seq) ==
    LET hits == {k \in 1..Len(exclude_seqs) : Contains(exclude_seqs[k], p_seq)}
    IN  IF hits = {} THEN << >>
        ELSE << exclude_seqs[CHOOSE k \in hits : \A j \in hits : k <= j] >>

\* screen_padlock_arms; tm_l, tm_r are calcTm's results for the two arms and
\* het_0, het_1, het_2 calcHeterodimerTm's for (l, r), (l, loop), (r, loop)
screen_padlock_arms(p_l_seq, p_r_seq, loop_seq, p_params, tm_l, tm_r, het_0, het_1, het_2) ==
    LET p_l_gc_content == gc_content(p_l_seq)
        p_r_gc_content == gc_content(p_r_seq)
        gc_fail == \/ GcLess(p_l_gc_content, p_params.arm_gc_min)
                   \/ GcLess(p_r_gc_content, p_params.arm_gc_min)
                   \/ GcMore(p_l_gc_content, p_params.arm_gc_max)
                   \/ GcMore(p_r_gc_content, p_params.arm_gc_max)
        l_3p_check == padlock_left_arm_gc_clamp(p_l_seq)
        clamp_fail == l_3p_check > ClampMax
        tm_fail == tm_l < p_params.arm_tm_min \/ tm_r < p_params.arm_tm_min
        p_seq == p_r_seq \o loop_seq \o p_l_seq
        ex_seq == ExcludedFound(p_params.exclude_seqs, p_seq)
        ex_fail == ex_seq # << >>
        het_fail == \/ het_0 > p_params.structure_tm_max
                    \/ het_1 > p_params.structure_tm_max
                    \/ het_2 > p_params.structure_tm_max
    IN  [is_good |-> ~(gc_fail \/ clamp_fail \/ tm_fail \/ ex_fail \/ het_fail),
         report  |-> [arm_gc_min_l |-> p_l_gc_content,
                      arm_gc_max_l |-> p_l_gc_content,
                      arm_gc_min_r |-> p_r_gc_content,
                      arm_gc_max_r |-> p_r_gc_content,
                      l_clamp      |-> FALSE,
                      tm_arm_min_l |-> tm_l,
                      tm_arm_min_r |-> tm_r,
                      ex_seq       |-> ex_seq,
                      tm_hairpin_l |-> 0,
                      tm_hairpin_r |-> 0,
                      tm_hetero_0  |-> het_0,
                      tm_hetero_1  |-> het_1,
                      tm_hetero_2  |-> het_2]]

\* --------------------------------------------------- clustering and ranking
\* split_hit_list's loop from item k on: hit_lists is the groups built so
\* far (the last one is the open group), delta the running threshold
RECURSIVE SplitLoop(_, _, _, _, _, _)
SplitLoop(its, k, hit_lists_, delta, arm_length_, spacing_) ==
    IF k > Len(its) THEN hit_lists_
    ELSE LET idx == its[k][1]
             n == Len(hit_lists_)
         IN  IF idx > delta
             THEN SplitLoop(its, k + 1, Append(hit_lists_, <<its[k]>>),
                            idx + 2 * arm_length_ + spacing_,
                            arm_length_, spacing_)
             ELSE SplitLoop(its, k + 1,
                            [hit_lists_ EXCEPT ![n] = Append(@, its[k])],
                            delta, arm_length_, spacing_)

\* split_hit_list opening a new group at i >= delta instead of i > delta
RECURSIVE SplitLoopAtDelta(_, _, _, _, _, _)
SplitLoopAtDelta(its, k, hit_lists_, delta, arm_length_, spacing_) ==
    IF k > Len(its) THEN hit_lists_
    ELSE LET idx == its[k][1]
             n == Len(hit_lists_)
         IN  IF idx >= delta
             THEN SplitLoopAtDelta(its, k + 1, Append(hit_lists_, <<its[k]>>),
                                   idx + 2 * arm_length_ + spacing_,
                                   arm_length_, spacing_)
             ELSE SplitLoopAtDelta(its, k + 1,
                                   [hit_lists_ EXCEPT ![n] = Append(@, its[k])],
                                   delta, arm_length_, spacing_)

split_hit_list_at_delta(its, arm_length_, spacing_) ==
    IF Len(its) > 0
    THEN SplitLoopAtDelta(its, 1, << << >> >>,
                          its[1][1] + 2 * arm_length_ + spacing_,
                          arm_length_, spacing_)
    ELSE << >>

split_hit_list(its, arm_length_, spacing_) ==
    IF Len(its) > 0
    THEN SplitLoop(its, 1, << << >> >>,
                   its[1][1] + 2 * arm_length_ + spacing_,
                   arm_length_, spacing_)
    ELSE << >>

\* max_tm_f without the 0.9 on the right arm
max_tm_f_unweighted(x) == 10 * x[2].tm_arm_min_l + 10 * x[2].tm_arm_min_r

\* max_tm_f: tm_arm_min_l + 0.9 * tm_arm_min_r, times ten
max_tm_f(x) == 10 * x[2].tm_arm_min_l + 9 * x[2].tm_arm_min_r

\* sorted(items, key=max_tm_f, reverse=True): a stable sort, so items of
\* equal key keep their order.  Item k goes after the items of greater key
\* and the earlier items of equal key
SortedPlace(its, k) ==
    1 + Cardinality({j \in 1..Len(its) :
                        \/ max_tm_f(its[j]) > max_tm_f(its[k])
                        \/ max_tm_f(its[j]) = max_tm_f(its[k]) /\ j < k})

sort_hit_list(its) ==
    [p \in 1..Len(its) |->
        its[CHOOSE k \in 1..Len(its) : SortedPlace(its, k) = p]]

\* ------------------------------------------------------------------ state
VARIABLES
    seq,            \* generate_padlocks: the target sequence
    arm_length,     \* the length of an arm
    barcodes,       \* the barcodes to try
    params,         \* the merged configuration
    pc,             \* where generate_padlocks is
    bi,             \* the barcode loop: index of the next barcode (1-based)
    barcode,        \* the barcode loop's variable
    scaffold,       \* the scaffold chosen
    i,              \* the window loop's variable
    items,          \* the accepted windows: <<index, report>>
    screened,       \* the windows screen_padlock_arms was called on, in order
    tm_memo,        \* calcTm's value for each arm it was called on
    hit_lists,      \* the clusters
    sampled_list,   \* the first element of each cluster
    sequences_list, \* the PadHits returned
    err,            \* the ValueError raised, "" for none
    scr             \* a single call of screen_padlock_arms (SpecScreen)

vars == <<seq, arm_length, barcodes, params, pc, bi, barcode, scaffold, i,
          items, screened, tm_memo, hit_lists, sampled_list, sequences_list,
          err, scr>>

inputs == <<seq, arm_length, barcodes, params>>

\* the keys a caller passes in params
Overrides(spacings, gaps, gcs, keeps) ==
    {[spacing |-> sp, gap_size |-> g, arm_gc_min |-> gc[1],
      arm_gc_max |-> gc[2], keep_random_n |-> kp] :
        sp \in spacings, g \in gaps, gc \in gcs, kp \in keeps}

Configs(spacings, gaps, gcs, keeps) ==
    {MergeParams(DEFAULT_PADLOCK_CONFIG, o) :
        o \in Overrides(spacings, gaps, gcs, keeps)}

DefaultGc == <<40, 60>>
AnyGc == <<0, 100>>
HighGc == <<40, 100>>

\* the arguments of a call: every sequence and configuration, one barcode
InputsWindows ==
    /\ seq \in StringsUpTo(MaxSeqLen)
    /\ arm_length \in 1..MaxArmLen
    /\ barcodes = << <<"A">> >>
    /\ params \in Configs({0, MaxSpacing}, 0..MaxGap, {DefaultGc, AnyGc},
                          {<< >>})

\* long sequences, of which arms of one base make several clusters
InputsLong ==
    /\ seq \in StringsOfLen(LongSeqLen)
    /\ arm_length = 1
    /\ barcodes = << <<"A">> >>
    /\ params \in Configs({MaxSpacing}, {0}, {AnyGc, HighGc}, {<< >>, <<1>>})

\* every list of barcodes, on short sequences
InputsBarcodes ==
    /\ seq \in StringsUpTo(ShortSeqLen)
    /\ arm_length = 1
    /\ barcodes \in BarcodeLists
    /\ params \in Configs({0}, {0}, {AnyGc}, {<< >>})

NoCall == [pc |-> "none"]

\* the locals of generate_padlocks as it is entered
Entered ==
    /\ pc = "start"
    /\ bi = 1
    /\ barcode = << >>
    /\ scaffold = << >>
    /\ i = 0
    /\ items = << >>
    /\ screened = << >>
    /\ tm_memo = << >>
    /\ hit_lists = << >>
    /\ sampled_list = << >>
    /\ sequences_list = << >>
    /\ err = ""
    /\ scr = NoCall

Init ==
    /\ InputsWindows \/ InputsLong \/ InputsBarcodes
    \* an arm is never the empty string
    /\ params.gap_size <= arm_length
    /\ Entered

\* ------------------------------------------------------ generate_padlocks
arm_length2 == 2 * arm_length

\* if len(barcodes) == 0 ...: raise ValueError
CheckBarcodes ==
    /\ pc = "start"
    /\ IF Len(barcodes) = 0
       THEN /\ pc' = "raised"
            /\ err' = "barcodes length must be non-zero"
       ELSE /\ pc' = "barcodes"
            /\ err' = err
    /\ UNCHANGED <<inputs, bi, barcode, scaffold, i, items, screened, tm_memo,
                   hit_lists, sampled_list, sequences_list, scr>>

\* one turn of: for barcode in barcodes
TryBarcode ==
    /\ pc = "barcodes"
    /\ bi <= Len(barcodes)
    /\ barcode' = barcodes[bi]
    /\ LET candidate_scaffold == create_scaffold(barcodes[bi])
       IN  scaffold' = IF ~Contains(PolyG, candidate_scaffold)
                       THEN candidate_scaffold
                       ELSE scaffold
    /\ bi' = bi + 1
    /\ UNCHANGED <<inputs, pc, i, items, screened, tm_memo, hit_lists,
                   sampled_list, sequences_list, err, scr>>

\* CheckScaffold without its raise: the run goes on with no scaffold
CheckScaffoldNoRaise ==
    /\ pc = "barcodes"
    /\ bi > Len(barcodes)
    /\ pc' = "windows"
    /\ UNCHANGED <<inputs, bi, barcode, scaffold, i, items, screened, tm_memo,
                   hit_lists, sampled_list, sequences_list, err, scr>>

\* the loop is over: if not scaffold: raise ValueError
CheckScaffold ==
    /\ pc = "barcodes"
    /\ bi > Len(barcodes)
    /\ IF scaffold = << >>
       THEN /\ pc' = "raised"
            /\ err' = "polyG in scaffold for all barcodes"
       ELSE /\ pc' = "windows"
            /\ err' = err
    /\ UNCHANGED <<inputs, bi, barcode, scaffold, i, items, screened, tm_memo,
                   hit_lists, sampled_list, sequences_list, scr>>

\* SearchRange with the last full window of a gap-free run let in
SearchRangeOneMore == 0..(Len(seq) - arm_length2)

\* range(len(seq) - arm_length2)
SearchRange == 0..(Len(seq) - arm_length2 - 1)

\* seq[i:i + arm_length2 + gap_size]
Window(k) == Slice(seq, k, k + arm_length2 + params.gap_size)
\* seq[i:i + arm_length]
LeftArm(k) == Slice(seq, k, k + arm_length)
\* seq[i + arm_length + gap_size:i + arm_length2 + gap_size]
RightArm(k) ==
    Slice(seq, k + arm_length + params.gap_size,
          k + arm_length2 + params.gap_size)

\* calcTm gives v for arm a: the value it gave before, if it was asked
TmIs(a, v) ==
    \A k \in 1..Len(tm_memo) : tm_memo[k][1] = a => tm_memo[k][2] = v

Remember(memo, a, v) ==
    IF \E k \in 1..Len(memo) : memo[k][1] = a THEN memo
    ELSE Append(memo, <<a, v>>)

\* a turn of the window loop on a window that holds GGGG: nothing is done
SkipWindow ==
    /\ pc = "windows"
    /\ i \in SearchRange
    /\ Contains(PolyG, Window(i))
    /\ i' = i + 1
    /\ UNCHANGED <<inputs, pc, bi, barcode, scaffold, items, screened,
                   tm_memo, hit_lists, sampled_list, sequences_list, err, scr>>

\* a turn of the window loop on a window without GGGG: the arms are screened
ScreenWindow ==
    /\ pc = "windows"
    /\ i \in SearchRange
    /\ ~Contains(PolyG, Window(i))
    /\ \E tm_l, tm_r \in TmVals, het_0, het_1, het_2 \in HetVals :
         LET l_primer == LeftArm(i)
             r_primer == RightArm(i)
             res == screen_padlock_arms(l_primer, r_primer, scaffold, params,
                                        tm_l, tm_r, het_0, het_1, het_2)
         IN  /\ TmIs(l_primer, tm_l)
             /\ TmIs(r_primer, tm_r)
             /\ l_primer = r_primer => tm_l = tm_r
             /\ tm_memo' = Remember(Remember(tm_memo, l_primer, tm_l),
                                    r_primer, tm_r)
             /\ items' = IF res.is_good
                         THEN Append(items, <<i, res.report>>)
                         ELSE items
    /\ screened' = Append(screened, i)
    /\ i' = i + 1
    /\ UNCHANGED <<inputs, pc, bi, barcode, scaffold, hit_lists, sampled_list,
                   sequences_list, err, scr>>

\* the window loop is over: hit_lists = split_hit_list(items, ...)
Split ==
    /\ pc = "windows"
    /\ i \notin SearchRange
    /\ hit_lists' = split_hit_list(items, arm_length, params.spacing)
    /\ pc' = "split"
    /\ UNCHANGED <<inputs, bi, barcode, scaffold, i, items, screened, tm_memo,
                   sampled_list, sequences_list, err, scr>>

\* PadHit(name0, name1, strand_dir, genome_idx, i, gap_size, seq_r +
\* scaffold + seq_l, barcode, seq_r, scaffold, seq_l); the names, the strand
\* and genome_idx are copied from the arguments and left out
PadHit(k) ==
    [idx         |-> k,
     gap_size    |-> params.gap_size,
     padlock_seq |-> RightArm(k) \o scaffold \o LeftArm(k),
     barcode     |-> barcode,
     seq_r       |-> RightArm(k),
     scaffold    |-> scaffold,
     seq_l       |-> LeftArm(k)]

\* the rest of generate_padlocks, which has no branch:
\*   hit_lists = [sort_hit_list(x) for x in hit_lists]
\*   sampled_list = [x[0] for x in hit_lists]
\*   for i, b in sampled_list: sequences_list.append(PadHit(...))
\*   return sequences_list
SortAndAssemble ==
    /\ pc = "split"
    /\ LET sorted_lists ==
               [k \in 1..Len(hit_lists) |-> sort_hit_list(hit_lists[k])]
           sampled == [k \in 1..Len(sorted_lists) |-> sorted_lists[k][1]]
       IN  /\ hit_lists' = sorted_lists
           /\ sampled_list' = sampled
           /\ sequences_list' = [k \in 1..Len(sampled) |-> PadHit(sampled[k][1])]
    /\ pc' = "returned"
    /\ UNCHANGED <<inputs, bi, barcode, scaffold, i, items, screened, tm_memo,
                   err, scr>>

Next ==
    \/ CheckBarcodes
    \/ TryBarcode
    \/ CheckScaffold
    \/ SkipWindow
    \/ ScreenWindow
    \/ Split
    \/ SortAndAssemble

Spec == Init /\ [][Next]_vars

\* ---------------------------------------- a single call of the Arm Screen
ExcludeTwo == << <<"A", "A", "A">>, <<"G", "G", "G">> >>

ScreenConfigs ==
    {MergeParams(DEFAULT_PADLOCK_CONFIG, o) :
        o \in {[arm_gc_min |-> DefaultGc[1], arm_gc_max |-> DefaultGc[2]],
               [arm_gc_min |-> AnyGc[1], arm_gc_max |-> AnyGc[2]],
               [arm_gc_min |-> AnyGc[1], arm_gc_max |-> AnyGc[2],
                exclude_seqs |-> ExcludeTwo]}}

InitScreen ==
    /\ seq = << >>
    /\ arm_length = ScreenArmLen
    /\ barcodes = << >>
    /\ params = DEFAULT_PADLOCK_CONFIG
    /\ pc = "screen"
    /\ bi = 1
    /\ barcode = << >>
    /\ scaffold = << >>
    /\ i = 0
    /\ items = << >>
    /\ screened = << >>
    /\ tm_memo = << >>
    /\ hit_lists = << >>
    /\ sampled_list = << >>
    /\ sequences_list = << >>
    /\ err = ""
    /\ \E l, r \in StringsOfLen(ScreenArmLen), p \in ScreenConfigs :
         scr = [pc |-> "called", p_l_seq |-> l, p_r_seq |-> r,
                loop_seq |-> create_scaffold(<<"A">>), p_params |-> p]

\* screen_padlock_arms(p_l_seq, p_r_seq, loop_seq, p_params) returns
ScreenCall ==
    /\ scr.pc = "called"
    /\ \E tm_l, tm_r \in ScreenTmVals, het_0, het_1, het_2 \in ScreenHetVals :
         LET res == screen_padlock_arms(scr.p_l_seq, scr.p_r_seq,
                                        scr.loop_seq, scr.p_params,
                                        tm_l, tm_r, het_0, het_1, het_2)
         IN  /\ scr.p_l_seq = scr.p_r_seq => tm_l = tm_r
             /\ scr' = [pc |-> "returned", p_l_seq |-> scr.p_l_seq,
                        p_r_seq |-> scr.p_r_seq, loop_seq |-> scr.loop_seq,
                        p_params |-> scr.p_params,
                        is_good |-> res.is_good, report |-> res.report]
    /\ UNCHANGED <<inputs, pc, bi, barcode, scaffold, i, items, screened,
                   tm_memo, hit_lists, sampled_list, sequences_list, err>>

NextScreen == ScreenCall

SpecScreen == InitScreen /\ [][NextScreen]_vars

\* ================================================================= claims
Returned == pc = "returned"

\* the window indices of the PadHits returned
HitIdx(k) == sequences_list[k].idx

\* C1: adjacent returned probes (they come from different clusters) start at
\* least spacing apart: next.index - prev.index >= spacing
C1_ClusterSpacing ==
    Returned =>
        \A k \in 1..(Len(sequences_list) - 1) :
            HitIdx(k + 1) - HitIdx(k) >= params.spacing

\* C2: every returned PadHit is right arm + scaffold + left arm, with both
\* arms arm_length long and the whole 2 * arm_length + len(scaffold) long
C2_ArmLengthInvariant ==
    Returned =>
        \A k \in 1..Len(sequences_list) :
            LET h == sequences_list[k]
            IN  /\ h.padlock_seq = h.seq_r \o h.scaffold \o h.seq_l
                /\ Len(h.seq_l) = arm_length
                /\ Len(h.seq_r) = arm_length
                /\ Len(h.padlock_seq) = 2 * arm_length + Len(h.scaffold)

\* the barcodes whose instantiated scaffold holds no GGGG
Viable == {k \in 1..Len(barcodes) :
              ~Contains(<<"G", "G", "G", "G">>, create_scaffold(barcodes[k]))}
ScaffoldFixed == pc \in {"windows", "split", "returned"}

\* C3: the scaffold of the run is that of the first viable barcode of the list
C3_FirstViableBarcode ==
    ScaffoldFixed =>
        /\ Viable # {}
        /\ scaffold =
             create_scaffold(barcodes[CHOOSE k \in Viable :
                                          \A j \in Viable : k <= j])

\* C4: with keep_random_n = n at most n PadHits are returned, and with
\* keep_random_n unset one per cluster
C4_KeepRandomN ==
    Returned =>
        IF params.keep_random_n = << >>
        THEN Len(sequences_list) = Len(hit_lists)
        ELSE Len(sequences_list) <= params.keep_random_n[1]

\* C5: the scaffold of every returned PadHit is the scaffold instantiated
\* from the barcode the PadHit records
C5_BarcodeRecorded ==
    Returned =>
        \A k \in 1..Len(sequences_list) :
            sequences_list[k].scaffold =
                create_scaffold(sequences_list[k].barcode)

\* ------------------------------------------------------------------- C6
FourG == <<"G", "G", "G", "G">>
NoViable == Viable = {}
NothingScreened ==
    screened = << >> /\ items = << >> /\ sequences_list = << >> /\ i = 0

\* C6: the run raises, before any window is looked at, exactly when the list
\* of barcodes is empty or every scaffold holds GGGG; every other run visits
\* every window and returns, and it screens against a scaffold without GGGG
C6_AbortBeforeScreening ==
    /\ pc = "raised" => NoViable /\ NothingScreened
    /\ pc = "raised" =>
         err = (IF Len(barcodes) = 0
                THEN "barcodes length must be non-zero"
                ELSE "polyG in scaffold for all barcodes")
    /\ NoViable => pc \in {"start", "barcodes", "raised"} /\ NothingScreened
    /\ ~NoViable => pc # "raised" /\ err = ""
    /\ ScaffoldFixed \/ screened # << >> =>
         scaffold # << >> /\ ~Contains(FourG, scaffold)
    /\ Returned => i = Max(0, Len(seq) - 2 * arm_length)
    \* until the window loop is over, a run that has not raised has a next step
    /\ pc \in {"start", "barcodes", "windows"} =>
         ENABLED (CheckBarcodes \/ TryBarcode \/ CheckScaffold \/ SkipWindow
                  \/ Split \/ ScreenWindow)

C6_Aborted ==
    /\ pc = "raised"
    /\ Len(barcodes) > 0
    /\ err = "polyG in scaffold for all barcodes"

\* ------------------------------------------------------------------- C7
ScreenReturned == scr.pc = "returned"
GcWithin(s, p) ==
    /\ p.arm_gc_min * Len(s) <= 100 * GcCount(s)
    /\ 100 * GcCount(s) <= p.arm_gc_max * Len(s)
\* the five criteria of the claim, on the arguments and the calculators'
\* values of the call that returned
GcCriterion == GcWithin(scr.p_l_seq, scr.p_params)
               /\ GcWithin(scr.p_r_seq, scr.p_params)
ClampCriterion ==
    /\ padlock_left_arm_gc_clamp(scr.p_l_seq) <= 3
    /\ padlock_right_arm_gc_clamp(scr.p_r_seq) <= 3
TmCriterion ==
    /\ scr.report.tm_arm_min_l >= scr.p_params.arm_tm_min
    /\ scr.report.tm_arm_min_r >= scr.p_params.arm_tm_min
MotifCriterion ==
    \A k \in 1..Len(scr.p_params.exclude_seqs) :
        ~Contains(scr.p_params.exclude_seqs[k],
                  scr.p_r_seq \o scr.loop_seq \o scr.p_l_seq)
HeteroCriterion ==
    /\ scr.report.tm_hetero_0 <= scr.p_params.structure_tm_max
    /\ scr.report.tm_hetero_1 <= scr.p_params.structure_tm_max
    /\ scr.report.tm_hetero_2 <= scr.p_params.structure_tm_max

\* C7: screen_padlock_arms accepts exactly when the GC bounds of both arms,
\* the GC clamp of both arms, both arm Tms, the excluded motifs and the three
\* heterodimer Tms all pass
C7_AcceptedIffAllFive ==
    ScreenReturned =>
        (scr.is_good <=> /\ GcCriterion
                         /\ ClampCriterion
                         /\ TmCriterion
                         /\ MotifCriterion
                         /\ HeteroCriterion)

\* ------------------------------------------------------------------- C8
\* the window starts of the claim and the span each is tested on
ClaimStarts == {k \in 0..(Len(seq) - 2 * arm_length - 1) : k >= 0}
SpanHasFourG(k) ==
    Contains(FourG, Slice(seq, k, k + 2 * arm_length + params.gap_size))
Increasing(f, n) == \A k \in 1..(n - 1) : f[k] < f[k + 1]
ItemIdx == [k \in 1..Len(items) |-> items[k][1]]
ElemsOf(f) == {f[k] : k \in 1..Len(f)}
MemoTm(a) == tm_memo[CHOOSE k \in 1..Len(tm_memo) : tm_memo[k][1] = a][2]
\* what the Arm Screen says of window k, with calcTm's values as remembered
Verdicts(k) ==
    LET l == Slice(seq, k, k + arm_length)
        r == Slice(seq, k + arm_length + params.gap_size,
                   k + 2 * arm_length + params.gap_size)
    IN  {screen_padlock_arms(l, r, scaffold, params, MemoTm(l), MemoTm(r),
                             h[1], h[2], h[3]) :
            h \in HetVals \X HetVals \X HetVals}

\* C8: the windows are taken in increasing order; the Arm Screen is called
\* exactly once on each window without GGGG in its span and never on the
\* others; items holds exactly the accepted windows, in increasing order, and
\* nothing when the sequence is shorter than 2 * arm_length
C8_Enumeration ==
    /\ ~ScaffoldFixed => screened = << >> /\ items = << >>
    /\ ScaffoldFixed =>
         /\ Increasing(screened, Len(screened))
         /\ ElemsOf(screened) =
              {k \in ClaimStarts : k < i /\ ~SpanHasFourG(k)}
         /\ Increasing(ItemIdx, Len(items))
         /\ ElemsOf(ItemIdx) \subseteq ElemsOf(screened)
         /\ pc # "windows" => i = Cardinality(ClaimStarts)
         /\ Len(seq) < 2 * arm_length => items = << >> /\ screened = << >>
    \* the candidate list, once the loop is over
    /\ pc = "split" =>
         /\ \A k \in 1..Len(items) :
              [is_good |-> TRUE, report |-> items[k][2]]
                  \in Verdicts(items[k][1])
         /\ \A k \in ElemsOf(screened) \ ElemsOf(ItemIdx) :
              \E v \in Verdicts(k) : ~v.is_good

C8_SomeSkippedSomeAccepted ==
    /\ pc = "split"
    /\ \E k \in ClaimStarts : SpanHasFourG(k)
    /\ Len(items) >= 1

\* ------------------------------------------------------------------- C9
RECURSIVE Flatten(_)
Flatten(ls) == IF ls = << >> THEN << >> ELSE Head(ls) \o Flatten(Tail(ls))

ClaimThreshold(c) == c[1][1] + 2 * arm_length + params.spacing

\* C9: the clusters split_hit_list returns partition the candidate list in
\* order; none is empty; every member's index is at most the threshold of
\* its cluster; every later cluster starts above the threshold of the one
\* before; no candidates give no clusters
C9_SplitPartitions ==
    pc = "split" =>
        /\ Flatten(hit_lists) = items
        /\ \A c \in 1..Len(hit_lists) :
             /\ Len(hit_lists[c]) > 0
             /\ \A m \in 1..Len(hit_lists[c]) :
                  hit_lists[c][m][1] <= ClaimThreshold(hit_lists[c])
             /\ c > 1 =>
                  hit_lists[c][1][1] > ClaimThreshold(hit_lists[c - 1])
        /\ items = << >> => hit_lists = << >>

C9_TwoClusters ==
    /\ pc = "split"
    /\ Len(hit_lists) >= 2
    /\ Len(hit_lists[1]) >= 2

\* ------------------------------------------------------------------ C10
\* S = tm_arm_min_l + 0.9 * tm_arm_min_r, times ten
ClaimScore(x) == 10 * x[2].tm_arm_min_l + 9 * x[2].tm_arm_min_r
Clusters == split_hit_list(items, arm_length, params.spacing)
\* the member of cluster c the claim selects
IsBest(x, c) ==
    /\ x \in ElemsOf(c)
    /\ \A y \in ElemsOf(c) :
         \/ ClaimScore(y) < ClaimScore(x)
         \/ ClaimScore(y) = ClaimScore(x) /\ x[1] <= y[1]

\* C10: each sorted cluster is a permutation of the cluster in non-increasing
\* score; the PadHits returned are one per cluster, in cluster order, each at
\* the member of highest score, the earliest of them on a tie
C10_BestOfEachCluster ==
    Returned =>
        LET cl == Clusters
        IN  /\ Len(hit_lists) = Len(cl)
            /\ \A c \in 1..Len(hit_lists) :
                 /\ Len(hit_lists[c]) = Len(cl[c])
                 /\ ElemsOf(hit_lists[c]) = ElemsOf(cl[c])
                 /\ \A m \in 1..(Len(hit_lists[c]) - 1) :
                      ClaimScore(hit_lists[c][m])
                          >= ClaimScore(hit_lists[c][m + 1])
            /\ Len(sequences_list) = Len(cl)
            /\ \A c \in 1..Len(sequences_list) :
                 \E x \in ElemsOf(cl[c]) : IsBest(x, cl[c]) /\ HitIdx(c) = x[1]
            /\ \A c \in 1..(Len(sequences_list) - 1) : HitIdx(c) < HitIdx(c + 1)

C10_LaterMemberWins ==
    /\ Returned
    /\ Len(sequences_list) >= 2
    /\ LET cl == Clusters
       IN  \E c \in 1..Len(sequences_list) :
             /\ HitIdx(c) # cl[c][1][1]
             /\ \E x, y \in ElemsOf(cl[c]) :
                  x # y /\ ClaimScore(x) = ClaimScore(y) /\ IsBest(x, cl[c])

\* ------------------------------------------------------------------- C11
\* the configured disallowed substrings that occur in right + loop + left
\* of the call that returned
ExcludedPresent ==
    LET p_seq == scr.p_r_seq \o scr.loop_seq \o scr.p_l_seq
        ex == scr.p_params.exclude_seqs
    IN  {ex[k] : k \in {j \in 1..Len(ex) : Contains(ex[j], p_seq)}}

\* the report's disallowed-substring list holds every one of them
ExSeqComplete == ElemsOf(scr.report.ex_seq) = ExcludedPresent

\* the report's GC-clamp entry is the G/C count of the left arm's clamp window
ClampEntryIsCount ==
    /\ scr.report.l_clamp \notin BOOLEAN
    /\ scr.report.l_clamp = padlock_left_arm_gc_clamp(scr.p_l_seq)

\* C11: after any call of screen_padlock_arms, whichever criteria fail, the
\* report's disallowed-substring list contains every configured disallowed
\* substring occurring in right_arm + loop + left_arm, and its GC-clamp
\* entry holds the G/C count of the arm's 5-nt clamp window.
C11_ReportComplete ==
    ScreenReturned => ExSeqComplete /\ ClampEntryIsCount

====
